---- MODULE Spec2Model ----
(***************************************************************************)
(* A model of the stock screener of src/src/screener.py (StockScreener):   *)
(*   get_market_snapshot  - primary/fallback snapshot fetch + normalising  *)
(*   filter_basics        - the scalar pre-filter                          *)
(*   check_technical_pattern - the four-gate pattern test on one history   *)
(*   run_screen           - the thread-pool fan-out / as_completed fan-in  *)
(*                                                                         *)
(* Numbers.  Prices are integers.  total_mv is counted in units of 10^8    *)
(* yuan (so the source's 200 * 100000000 is 200).  A bar's pct_chg is      *)
(* counted in tenths of a percent (so the source's 9.5 is 95).  Ratios the *)
(* source computes in floating point are kept exact, as n/d pairs.         *)
(* Column names of the two providers are written in pinyin.                *)
(***************************************************************************)
EXTENDS Integers, Sequences, FiniteSets, TLC

VARIABLES
    \* ---- filter_basics, applied to one frame
    fdf,            \* the frame handed to filter_basics
    fres,           \* what filter_basics did with it
    fpc,            \* "build" | "done"
    \* ---- check_technical_pattern, applied to one fetched history
    hist,           \* what get_daily_data hands back
    edits,          \* how many bars of hist were altered
    pres,           \* what check_technical_pattern returned
    ppc,            \* "build" | "done"
    \* ---- run_screen
    max_workers,    \* self.max_workers
    pc,             \* position of the thread that called run_screen
    attempts,       \* the providers get_market_snapshot called, in order
    outcome,        \* provider -> "ok" | "raise" | "none" (not called)
    fetched_rows,   \* provider -> the rows it handed back
    df_market,      \* the snapshot run_screen works on
    candidates,     \* the (code, name) records after filter_basics
    nsub,           \* futures submitted so far
    fstate,         \* future -> "pending" | "running" | "finished"
    fresult,        \* future -> the value its call returned
    failed,         \* future -> its fetch or computation raised
    evals,          \* future -> times check_technical_pattern was invoked
    work_queue,     \* the executor's work queue (future indices)
    num_threads,    \* threads the executor has started
    idle_sem,       \* the executor's idle semaphore
    completed,      \* futures in the order they finished
    before_wait,    \* futures that had finished when as_completed started
    unyielded,      \* as_completed: finished-at-start futures not yet yielded
    waiter_finished,\* as_completed: the waiter's finished_futures list
    batch,          \* as_completed: the list being yielded from
    pending,        \* as_completed: futures not yet yielded
    results,        \* run_screen's results list
    processed       \* run_screen's processed counter

filterVars == <<fdf, fres, fpc>>
patternVars == <<hist, edits, pres, ppc>>
snapshotVars == <<attempts, outcome, fetched_rows, df_market, candidates>>
poolVars == <<nsub, fstate, fresult, failed, evals, work_queue, num_threads,
              idle_sem, completed>>
loopVars == <<before_wait, unyielded, waiter_finished, batch, pending,
              results, processed>>
screenVars == <<max_workers, pc, snapshotVars, poolVars, loopVars>>
vars == <<filterVars, patternVars, screenVars>>

Range(s) == {s[i] : i \in DOMAIN s}

Reverse(s) == [i \in 1..Len(s) |-> s[Len(s) + 1 - i]]

(***************************************************************************)
(* Cells and frames.  A cell of a numeric column is <<v>> or, missing,     *)
(* <<>> (NaN).  A frame is its set of column names and its rows, each row a *)
(* function of the column names.                                           *)
(***************************************************************************)
NaN == <<>>

Num(v) == <<v>>

IsNum(c) == Len(c) = 1

\* pandas comparisons: anything compared with NaN is False.  A boolean mask
\* df[mask] keeps the rows that satisfy it, in their order: SelectSeq.
CellLE(c, v) == IsNum(c) /\ c[1] <= v

CellGT(c, v) == IsNum(c) /\ c[1] > v

EmptyFrame == [cols |-> {}, rows |-> <<>>]

\* DataFrame.empty: some axis has length 0.
IsEmpty(df) == df.cols = {} \/ Len(df.rows) = 0

(***************************************************************************)
(* filter_basics                                                           *)
(***************************************************************************)
PriceLimit == 20

market_cap_limit == 200

KeyError == [ok |-> FALSE, exc |-> "KeyError"]

Returned(df) == [ok |-> TRUE, df |-> df]

PriceMaskNaNPasses(r) == ~CellGT(r["price"], PriceLimit)

PriceMask(r) == CellLE(r["price"], PriceLimit)

PeMask(r) == CellGT(r["pe"], 0)

MvMask(r) == CellLE(r["total_mv"], market_cap_limit)

filter_basics(df) ==
    IF IsEmpty(df) THEN Returned(df)
    ELSE IF "price" \notin df.cols THEN KeyError
    ELSE LET d1 == SelectSeq(df.rows, PriceMask) IN
    IF "pe" \notin df.cols THEN KeyError
    ELSE LET d2 == SelectSeq(d1, PeMask) IN
    IF "total_mv" \notin df.cols THEN KeyError
    ELSE Returned([cols |-> df.cols, rows |-> SelectSeq(d2, MvMask)])

(***************************************************************************)
(* The frames filter_basics is tried on: up to MaxRows rows drawn from     *)
(* RowMenu, under a schema that has all columns or lacks the pe column.    *)
(***************************************************************************)
MaxRows == 3

QuoteRow(code, price, pe, mv) ==
    [code |-> code, name |-> code, price |-> price, pe |-> pe, total_mv |-> mv]

RowMenu ==
    { QuoteRow("a", Num(15), Num(12), Num(50)),
      QuoteRow("b", Num(20), Num(1), Num(200)),
      QuoteRow("c", Num(25), Num(12), Num(50)),
      QuoteRow("d", Num(21), Num(1), Num(200)),
      QuoteRow("e", NaN, Num(12), Num(50)),
      QuoteRow("f", Num(15), Num(0), Num(50)),
      QuoteRow("g", Num(15), Num(0 - 3), Num(50)),
      QuoteRow("h", Num(15), NaN, Num(50)),
      QuoteRow("i", Num(15), Num(12), Num(201)),
      QuoteRow("j", Num(15), Num(12), NaN),
      QuoteRow("k", Num(21), NaN, Num(201)) }

CanonicalCols == {"code", "name", "price", "pe", "total_mv"}

Restrict(r, cols) == [c \in cols |-> r[c]]

AppendRow(r) ==
    /\ fpc = "build"
    /\ Len(fdf.rows) < MaxRows
    /\ fdf' = [fdf EXCEPT !.rows = Append(@, Restrict(r, fdf.cols))]
    /\ UNCHANGED <<fres, fpc, patternVars, screenVars>>

CallFilterBasics ==
    /\ fpc = "build"
    /\ fres' = filter_basics(fdf)
    /\ fpc' = "done"
    /\ UNCHANGED <<fdf, patternVars, screenVars>>

(***************************************************************************)
(* check_technical_pattern                                                 *)
(*                                                                         *)
(* A bar is [date, close, high, low, pct_chg].  What get_daily_data hands   *)
(* back is [kind, cols, bars]: kind "raise" (the fetch raised), "none" (df  *)
(* is None) or "frame" (a frame with columns cols and rows bars, in the     *)
(* provider's order).                                                      *)
(***************************************************************************)
MinBars == 60

LimitUpPct == 95

Ma5Window == 5

Ma10Window == 10

Ma20Window == 20

None == [kind |-> "None"]

Exc == [kind |-> "Exc"]

\* a/b > c/d, for b and d not 0
RatGT(a, b, c, d) == IF b * d > 0 THEN a * d > c * b ELSE a * d < c * b

\* df.sort_values('date', ascending=True).reset_index(drop=True): bar j goes to
\* the place given by the number of bars that sort before it.
sort_values(s) ==
    LET n == Len(s)
        Before(i, j) == s[i].date < s[j].date \/ (s[i].date = s[j].date /\ i < j)
        place == SubSeq([j \in 1..n |-> Cardinality({i \in 1..n : Before(i, j)}) + 1], 1, n)
    IN  SubSeq([k \in 1..n |-> s[CHOOSE j \in 1..n : place[j] = k]], 1, n)

\* df.tail(n)
tail(s, n) == IF Len(s) <= n THEN s ELSE SubSeq(s, Len(s) - n + 1, Len(s))

\* the sum of the closes of s[lo..hi]
RECURSIVE SumClose(_, _, _)
SumClose(s, lo, hi) ==
    IF lo > hi THEN 0
    ELSE IF lo = hi THEN s[lo].close
    ELSE LET mid == (lo + hi) \div 2
         IN  SumClose(s, lo, mid) + SumClose(s, mid + 1, hi)

\* df['close'].rolling(n).mean().iloc[-1], as the sum over the last n bars (the
\* mean is that sum over n; df has at least 60 bars here)
rolling_sum(df, n) == SumClose(df, Len(df) - n + 1, Len(df))

\* df['high'].max()
MaxHigh(s) == CHOOSE h \in {s[i].high : i \in 1..Len(s)} : \A i \in 1..Len(s) : s[i].high <= h

\* df['low'].min()
MinLow(s) == CHOOSE l \in {s[i].low : i \in 1..Len(s)} : \A i \in 1..Len(s) : s[i].low >= l

\* df_60[df_60['pct_chg'] > 9.5]
LimitUpMaskAtLeast(b) == b.pct_chg >= LimitUpPct

LimitUpMask(b) == b.pct_chg > LimitUpPct

limit_up_days(df_60) == SelectSeq(df_60, LimitUpMask)

\* interval_increase > 0.5
IntervalTooLarge(current_price, price_60_days_ago) ==
    RatGT(current_price - price_60_days_ago, price_60_days_ago, 1, 2)

\* ma5 > ma10 > ma20
MaBullish(df) ==
    /\ RatGT(rolling_sum(df, Ma5Window), Ma5Window, rolling_sum(df, Ma10Window), Ma10Window)
    /\ RatGT(rolling_sum(df, Ma10Window), Ma10Window, rolling_sum(df, Ma20Window), Ma20Window)

\* (current_price - year_low) / (year_high - year_low) if year_high != year_low else 0
PositionRank(current_price, year_high, year_low) ==
    IF year_high # year_low
    THEN [n |-> current_price - year_low, d |-> year_high - year_low]
    ELSE [n |-> 0, d |-> 1]

\* the body of the try block: a result, None, or Exc when a statement raises
PatternBody(code, name, fetched) ==
    IF fetched.kind = "raise" THEN Exc
    ELSE IF fetched.kind = "none" \/ IsEmpty([cols |-> fetched.cols, rows |-> fetched.bars])
            \/ Len(fetched.bars) < MinBars
    THEN None
    ELSE IF ~({"date", "close"} \subseteq fetched.cols) THEN Exc
    ELSE
    LET df == sort_values(fetched.bars)
        df_60 == tail(df, MinBars)
        current_price == df[Len(df)].close
        price_60_days_ago == df_60[1].close
    IN
    IF "pct_chg" \notin fetched.cols THEN Exc
    ELSE IF Len(limit_up_days(df_60)) = 0 THEN None
    ELSE IF IntervalTooLarge(current_price, price_60_days_ago) THEN None
    ELSE IF ~MaBullish(df) THEN None
    ELSE IF "high" \notin fetched.cols \/ "low" \notin fetched.cols THEN Exc
    ELSE
    LET position_rank == PositionRank(current_price, MaxHigh(df), MinLow(df))
    IN
    IF RatGT(position_rank.n, position_rank.d, 1, 2) THEN None
    ELSE [kind |-> "hit",
          code |-> code,
          name |-> name,
          price |-> current_price,
          limit_up_count |-> Len(limit_up_days(df_60)),
          interval_increase |->
              [n |-> (current_price - price_60_days_ago) * 100, d |-> price_60_days_ago],
          position_rank |-> [n |-> position_rank.n * 100, d |-> position_rank.d]]

\* try: ... except Exception: return None
check_technical_pattern_reraises(code, name, fetched) == PatternBody(code, name, fetched)

check_technical_pattern(code, name, fetched) ==
    LET r == PatternBody(code, name, fetched)
    IN  IF r.kind = "Exc" THEN None ELSE r

(***************************************************************************)
(* The histories check_technical_pattern is tried on.  A history starts as *)
(* one of the profiles below, with 59 to 61 bars, in ascending or          *)
(* descending date order, and then has up to MaxEdits single fields        *)
(* altered, each an entry of EditMenu: [rank, field, value], rank counted   *)
(* back from the latest bar (rank 0).  Bars need not be consistent (a      *)
(* close may lie outside [low, high]): the code does not check it.         *)
(***************************************************************************)
MaxEdits == 2

BarCols == {"date", "close", "high", "low", "pct_chg"}

Bar(date, close, high, low, pct) ==
    [date |-> date, close |-> close, high |-> high, low |-> low, pct_chg |-> pct]

Lengths == {MinBars - 1, MinBars, MinBars + 1}

DateOf(len, rank) == 100 + len - rank

\* flat bars, the latest one (rank 0) with its own close and pct_chg
ProfileBars(len, close, high, low, lastClose, lastPct) ==
    [i \in 1..len |->
        IF i = len THEN Bar(DateOf(len, 0), lastClose, high, low, lastPct)
        ELSE Bar(DateOf(len, len - i), close, high, low, 0)]

Profiles(len) ==
    { ProfileBars(len, 4, 8, 2, 4, 0),      \* flat, no rally
      ProfileBars(len, 4, 8, 2, 5, 100),    \* a rally on the latest bar, mid range
      ProfileBars(len, 4, 4, 4, 5, 96),     \* high = low on every bar
      ProfileBars(len, 2, 6, 4, 3, 96) }    \* every low above every close

Fetches ==
    UNION { { [kind |-> "frame", cols |-> BarCols, bars |-> b],
              [kind |-> "frame", cols |-> BarCols, bars |-> Reverse(b)] }
            : b \in UNION {Profiles(len) : len \in Lengths} }

FailedFetches ==
    { [kind |-> "raise", cols |-> {}, bars |-> <<>>],
      [kind |-> "none", cols |-> {}, bars |-> <<>>],
      [kind |-> "frame", cols |-> BarCols, bars |-> <<>>],
      [kind |-> "frame", cols |-> BarCols \ {"high"},
       bars |-> ProfileBars(MinBars, 4, 8, 2, 5, 100)] }

Edit(rank, fld, value) == [rank |-> rank, fld |-> fld, value |-> value]

EditMenu ==
    { Edit(0, "close", 6), Edit(0, "close", 7), Edit(0, "close", 3),
      Edit(0, "pct_chg", 95), Edit(1, "pct_chg", 96),
      Edit(5, "close", 5), Edit(4, "close", 3),
      Edit(19, "close", 9), Edit(20, "close", 9),
      Edit(MinBars - 1, "close", 3), Edit(MinBars, "close", 1),
      Edit(MinBars - 1, "pct_chg", 96), Edit(MinBars, "pct_chg", 96),
      Edit(30, "high", 12), Edit(MinBars, "low", 1), Edit(MinBars, "high", 20) }

ApplyEdit(bars, e) ==
    LET d == DateOf(Len(bars), e.rank)
    IN  [i \in 1..Len(bars) |->
            IF bars[i].date = d THEN [bars[i] EXCEPT ![e.fld] = e.value] ELSE bars[i]]

EditBar(e) ==
    /\ ppc = "build"
    /\ hist.kind = "frame"
    /\ edits < MaxEdits
    /\ e.rank < Len(hist.bars)
    /\ hist' = [hist EXCEPT !.bars = ApplyEdit(@, e)]
    /\ hist' # hist
    /\ edits' = edits + 1
    /\ UNCHANGED <<pres, ppc, filterVars, screenVars>>

CallCheckPattern ==
    /\ ppc = "build"
    /\ pres' = check_technical_pattern("c1", "n1", hist)
    /\ ppc' = "done"
    /\ UNCHANGED <<hist, edits, filterVars, screenVars>>

(***************************************************************************)
(* Specifications of the two pure functions (run_screen's follows).        *)
(***************************************************************************)
FilterInit ==
    /\ fdf \in { [cols |-> CanonicalCols, rows |-> <<>>],
                 [cols |-> CanonicalCols \ {"pe"}, rows |-> <<>>] }
    /\ fres = [ok |-> FALSE, exc |-> "not called"]
    /\ fpc = "build"
    /\ hist = [kind |-> "none", cols |-> {}, bars |-> <<>>]
    /\ edits = 0
    /\ pres = [kind |-> "not called"]
    /\ ppc = "off"
    /\ max_workers = 0
    /\ pc = "off"
    /\ attempts = <<>>
    /\ outcome = <<>>
    /\ fetched_rows = <<>>
    /\ df_market = EmptyFrame
    /\ candidates = <<>>
    /\ nsub = 0
    /\ fstate = <<>>
    /\ fresult = <<>>
    /\ failed = <<>>
    /\ evals = <<>>
    /\ work_queue = <<>>
    /\ num_threads = 0
    /\ idle_sem = 0
    /\ completed = <<>>
    /\ before_wait = {}
    /\ unyielded = {}
    /\ waiter_finished = <<>>
    /\ batch = <<>>
    /\ pending = {}
    /\ results = <<>>
    /\ processed = 0

PatternInit ==
    /\ hist \in Fetches \cup FailedFetches
    /\ edits = 0
    /\ pres = [kind |-> "not called"]
    /\ ppc = "build"
    /\ fdf = EmptyFrame
    /\ fres = [ok |-> FALSE, exc |-> "not called"]
    /\ fpc = "off"
    /\ max_workers = 0
    /\ pc = "off"
    /\ attempts = <<>>
    /\ outcome = <<>>
    /\ fetched_rows = <<>>
    /\ df_market = EmptyFrame
    /\ candidates = <<>>
    /\ nsub = 0
    /\ fstate = <<>>
    /\ fresult = <<>>
    /\ failed = <<>>
    /\ evals = <<>>
    /\ work_queue = <<>>
    /\ num_threads = 0
    /\ idle_sem = 0
    /\ completed = <<>>
    /\ before_wait = {}
    /\ unyielded = {}
    /\ waiter_finished = <<>>
    /\ batch = <<>>
    /\ pending = {}
    /\ results = <<>>
    /\ processed = 0

FilterNext ==
    \/ \E r \in RowMenu : AppendRow(r)
    \/ CallFilterBasics

SpecFilter == FilterInit /\ [][FilterNext]_vars

PatternNext ==
    \/ \E e \in EditMenu : EditBar(e)
    \/ CallCheckPattern

SpecPattern == PatternInit /\ [][PatternNext]_vars

(***************************************************************************)
(* get_market_snapshot                                                     *)
(*                                                                         *)
(* A provider call raises or hands back a frame whose cells are as the     *)
(* provider wrote them: a float, or text such as the placeholder "-".      *)
(* Provider column names, in pinyin: daima (code), mingcheng (name),       *)
(* zuixinjia (latest price), shiyinglv_dongtai (PE, akshare),              *)
(* zongshizhi (total market value), liutongshizhi, zhangdiefu; efinance    *)
(* has gupiaodaima, gupiaomingcheng and shiyinglv_dong for code, name, PE. *)
(***************************************************************************)
Float(v) == [t |-> "float", v |-> v]

Text(v) == [t |-> "str", v |-> v]

\* text that parses as a number
NumericText == [x \in {"12"} |-> 12]

\* pd.to_numeric(..., errors='coerce') on one cell
to_numeric(cell) ==
    IF cell.t = "float" THEN Num(cell.v)
    ELSE IF cell.v \in DOMAIN NumericText THEN Num(NumericText[cell.v])
    ELSE NaN

ak_rename_map ==
    [daima |-> "code", mingcheng |-> "name", zuixinjia |-> "price",
     shiyinglv_dongtai |-> "pe", zongshizhi |-> "total_mv",
     liutongshizhi |-> "circ_mv", zhangdiefu |-> "pct_chg"]

ef_rename_map ==
    [gupiaodaima |-> "code", gupiaomingcheng |-> "name", zuixinjia |-> "price",
     shiyinglv_dong |-> "pe", zongshizhi |-> "total_mv",
     liutongshizhi |-> "circ_mv", zhangdiefu |-> "pct_chg"]

numeric_cols == {"price", "pe", "total_mv", "circ_mv", "pct_chg"}

Renamed(c, map) == IF c \in DOMAIN map THEN map[c] ELSE c

\* df.rename(columns=map)
rename(df, map) ==
    LET newcols == {Renamed(c, map) : c \in df.cols}
    IN  [cols |-> newcols,
         rows |-> [i \in 1..Len(df.rows) |->
                     [n \in newcols |->
                         df.rows[i][CHOOSE c \in df.cols : Renamed(c, map) = n]]]]

\* for col in numeric_cols: if col in df.columns: df[col] = pd.to_numeric(df[col], errors='coerce')
coerce_numeric(df) ==
    [cols |-> df.cols,
     rows |-> [i \in 1..Len(df.rows) |->
                 [c \in df.cols |->
                     IF c \in numeric_cols THEN to_numeric(df.rows[i][c])
                     ELSE df.rows[i][c]]]]

\* lines 85-107: the frame of whichever provider answered, normalised
normalise(df) ==
    coerce_numeric(IF "gupiaodaima" \in df.cols THEN rename(df, ef_rename_map) ELSE df)

Raises == [kind |-> "raise"]

Gives(df) == [kind |-> "frame", df |-> df]

\* The imports at the top of the try block succeed or not (imp); ak and ef are
\* what the two provider calls do when called.  The result is the frame
\* returned and the calls made.
get_market_snapshot_no_fallback(imp, ak, ef) ==
    IF ~imp THEN [df |-> EmptyFrame, attempts |-> <<>>]
    ELSE IF ak.kind = "frame"
    THEN [df |-> normalise(rename(ak.df, ak_rename_map)), attempts |-> <<"akshare">>]
    ELSE [df |-> EmptyFrame, attempts |-> <<"akshare">>]

get_market_snapshot(imp, ak, ef) ==
    IF ~imp THEN [df |-> EmptyFrame, attempts |-> <<>>]
    ELSE IF ak.kind = "frame"
    THEN [df |-> normalise(rename(ak.df, ak_rename_map)), attempts |-> <<"akshare">>]
    ELSE IF ef.kind = "frame"
    THEN [df |-> normalise(ef.df), attempts |-> <<"akshare", "efinance">>]
    ELSE [df |-> EmptyFrame, attempts |-> <<"akshare", "efinance">>]

(***************************************************************************)
(* What the providers may answer in the model.                             *)
(***************************************************************************)
AkCols == {"daima", "mingcheng", "zuixinjia", "shiyinglv_dongtai", "zongshizhi"}

AkRow(code, price, pe, mv) ==
    [daima |-> code, mingcheng |-> code, zuixinjia |-> price,
     shiyinglv_dongtai |-> pe, zongshizhi |-> mv]

EfCols == {"gupiaodaima", "gupiaomingcheng", "zuixinjia", "shiyinglv_dong", "zongshizhi"}

EfRow(code, price, pe, mv) ==
    [gupiaodaima |-> code, gupiaomingcheng |-> code, zuixinjia |-> price,
     shiyinglv_dong |-> pe, zongshizhi |-> mv]

RawFrame(cols, rows) ==
    [cols |-> cols, rows |-> [i \in 1..Len(rows) |-> Restrict(rows[i], cols)]]

AkAnswers ==
    << Raises,
       Gives(RawFrame(AkCols, << AkRow("s1", Float(15), Float(12), Float(50)),
                                 AkRow("s2", Float(20), Text("12"), Float(200)),
                                 AkRow("s3", Float(8), Float(3), Float(7)) >>)),
       Gives(RawFrame(AkCols, << AkRow("s1", Float(25), Float(12), Float(50)),
                                 AkRow("s2", Float(15), Float(12), Float(50)),
                                 AkRow("s3", Float(15), Text("-"), Float(50)),
                                 AkRow("s4", Float(15), Float(12), Float(50)) >>)),
       Gives(RawFrame(AkCols, << AkRow("s1", Float(25), Float(12), Float(50)),
                                 AkRow("s2", Float(15), Float(0 - 3), Float(50)) >>)),
       Gives(RawFrame(AkCols \ {"shiyinglv_dongtai"},
                      << AkRow("s1", Float(15), Float(12), Float(50)) >>)),
       Gives(RawFrame(AkCols, << >>)) >>

EfAnswers ==
    << Raises,
       Gives(RawFrame(EfCols, << EfRow("t1", Float(15), Float(12), Float(50)),
                                 EfRow("t2", Float(15), Float(12), Float(201)),
                                 EfRow("t3", Float(9), Float(30), Float(200)) >>)),
       Gives(RawFrame(EfCols \ {"shiyinglv_dong"},
                      << EfRow("t1", Float(15), Float(12), Float(50)) >>)) >>

\* what get_daily_data may hand back for a candidate
FetchMenu ==
    << [kind |-> "raise", cols |-> {}, bars |-> <<>>],
       [kind |-> "none", cols |-> {}, bars |-> <<>>],
       [kind |-> "frame", cols |-> BarCols \ {"high"},
        bars |-> ProfileBars(MinBars, 4, 8, 2, 5, 100)],
       [kind |-> "frame", cols |-> BarCols, bars |-> ProfileBars(MinBars + 1, 4, 8, 2, 4, 0)],
       [kind |-> "frame", cols |-> BarCols,
        bars |-> Reverse(ProfileBars(MinBars + 1, 4, 8, 2, 5, 100))] >>

CandidateCodes == {"s1", "s2", "s3", "s4", "t1", "t2", "t3"}

\* check_technical_pattern on every candidate and fetch of the menu, and whether
\* the fetch or the computation raised
EvalTable ==
    [c \in CandidateCodes |->
        [k \in DOMAIN FetchMenu |-> check_technical_pattern(c, c, FetchMenu[k])]]

RaisedTable == [k \in DOMAIN FetchMenu |-> PatternBody("", "", FetchMenu[k]).kind = "Exc"]

(***************************************************************************)
(* run_screen.  The calling thread runs BeginRunScreen (lines 224-239),    *)
(* Submit once per candidate (240-243), AsCompletedStart and then the loop *)
(* (248-255) and ReturnResults (256-258); the executor's threads run       *)
(* StartEval and FinishEval.  ThreadPoolExecutor and as_completed are      *)
(* modelled as the standard library implements them: submit queues the     *)
(* work item and starts a thread unless one is idle or max_workers exist;  *)
(* as_completed first yields the futures already finished when it is       *)
(* called, in the iteration order of a set, then the others as their       *)
(* completion is notified to its waiter.                                   *)
(***************************************************************************)
MaxWidth == 2

DefaultMaxWorkers == 5

Futures == 1..nsub

Busy == Cardinality({f \in Futures : fstate[f] = "running"})

AllFinished == \A f \in Futures : fstate[f] = "finished"

\* df_basics[['code', 'name']].to_dict('records')
to_records(df) ==
    [i \in 1..Len(df.rows) |-> [code |-> df.rows[i]["code"], name |-> df.rows[i]["name"]]]

\* if res: results.append(res)  (None is falsy, a non-empty dict is truthy)
AppendResultOverwrites(res_list, res) == IF res.kind = "hit" THEN <<res>> ELSE res_list

AppendResultInFront(res_list, res) == IF res.kind = "hit" THEN <<res>> \o res_list ELSE res_list

AppendResult(res_list, res) == IF res.kind = "hit" THEN Append(res_list, res) ELSE res_list

\* ThreadPoolExecutor._adjust_thread_count: [num_threads, idle_sem] after a submit
AdjustThreadCountUnbounded(threads, idle) ==
    IF idle > 0 THEN <<threads, idle - 1>> ELSE <<threads + 1, idle>>

AdjustThreadCount(threads, idle) ==
    IF idle > 0 THEN <<threads, idle - 1>>
    ELSE IF threads < max_workers THEN <<threads + 1, idle>>
    ELSE <<threads, idle>>

\* _AsCompletedWaiter.add_result, called when a future of the waiter finishes
NotifyWaiter(finished_futures, f) == Append(finished_futures, f)

ScreenInit ==
    /\ max_workers \in (1..MaxWidth) \cup {DefaultMaxWorkers}
    /\ pc = "start"
    /\ attempts = <<>>
    /\ outcome = [akshare |-> "none", efinance |-> "none"]
    /\ fetched_rows = <<>>
    /\ df_market = EmptyFrame
    /\ candidates = <<>>
    /\ nsub = 0
    /\ fstate = <<>>
    /\ fresult = <<>>
    /\ failed = <<>>
    /\ evals = <<>>
    /\ work_queue = <<>>
    /\ num_threads = 0
    /\ idle_sem = 0
    /\ completed = <<>>
    /\ before_wait = {}
    /\ unyielded = {}
    /\ waiter_finished = <<>>
    /\ batch = <<>>
    /\ pending = {}
    /\ results = <<>>
    /\ processed = 0
    /\ fdf = EmptyFrame
    /\ fres = [ok |-> FALSE, exc |-> "not called"]
    /\ fpc = "off"
    /\ hist = [kind |-> "none", cols |-> {}, bars |-> <<>>]
    /\ edits = 0
    /\ pres = [kind |-> "not called"]
    /\ ppc = "off"

\* lines 224-239: the snapshot, the early return, the filter, the candidates
BeginRunScreen(imp, ak, ef) ==
    /\ pc = "start"
    /\ LET snap == get_market_snapshot(imp, ak, ef)
           called(p) == \E i \in 1..Len(snap.attempts) : snap.attempts[i] = p
           df_basics == filter_basics(snap.df)
       IN  /\ attempts' = snap.attempts
           /\ outcome' = [akshare |-> IF called("akshare") THEN ak.kind ELSE "none",
                          efinance |-> IF called("efinance") THEN ef.kind ELSE "none"]
           /\ fetched_rows' = IF called("efinance") /\ ef.kind = "frame" THEN ef.df.rows
                              ELSE IF called("akshare") /\ ak.kind = "frame" THEN ak.df.rows
                              ELSE <<>>
           /\ df_market' = snap.df
           /\ IF IsEmpty(snap.df)
              THEN pc' = "returned" /\ candidates' = <<>>
              ELSE IF ~df_basics.ok
              THEN pc' = "raised in filter_basics" /\ candidates' = <<>>
              ELSE IF ~({"code", "name"} \subseteq df_basics.df.cols)
              THEN pc' = "raised in to_dict" /\ candidates' = <<>>
              ELSE pc' = "submit" /\ candidates' = to_records(df_basics.df)
    /\ UNCHANGED <<filterVars, patternVars, max_workers, poolVars, loopVars>>

\* lines 240-243: executor.submit for the next candidate
Submit ==
    /\ pc = "submit"
    /\ nsub < Len(candidates)
    /\ nsub' = nsub + 1
    /\ fstate' = Append(fstate, "pending")
    /\ fresult' = Append(fresult, [kind |-> "unset"])
    /\ failed' = Append(failed, FALSE)
    /\ evals' = Append(evals, 0)
    /\ work_queue' = Append(work_queue, nsub + 1)
    /\ num_threads' = AdjustThreadCount(num_threads, idle_sem)[1]
    /\ idle_sem' = AdjustThreadCount(num_threads, idle_sem)[2]
    /\ UNCHANGED <<filterVars, patternVars, max_workers, pc, snapshotVars, completed, loopVars>>

\* a pool thread takes the next work item and calls check_technical_pattern
StartEval ==
    /\ pc \in {"submit", "loop", "unwinding"}
    /\ work_queue # <<>>
    /\ Busy < num_threads
    /\ fstate' = [fstate EXCEPT ![Head(work_queue)] = "running"]
    /\ evals' = [evals EXCEPT ![Head(work_queue)] = @ + 1]
    /\ work_queue' = Tail(work_queue)
    /\ UNCHANGED <<filterVars, patternVars, max_workers, pc, snapshotVars, nsub, fresult, failed, num_threads,
                   idle_sem, completed, loopVars>>

\* the call returns: get_daily_data answered FetchMenu[k]; the future is set and,
\* when as_completed is waiting on it, its waiter is told
FinishEval(f, k) ==
    /\ f \in Futures
    /\ fstate[f] = "running"
    /\ fstate' = [fstate EXCEPT ![f] = "finished"]
    /\ fresult' = [fresult EXCEPT ![f] = EvalTable[candidates[f].code][k]]
    /\ failed' = [failed EXCEPT ![f] = RaisedTable[k]]
    /\ completed' = Append(completed, f)
    /\ idle_sem' = idle_sem + 1
    /\ waiter_finished' = IF pc = "loop" THEN NotifyWaiter(waiter_finished, f)
                          ELSE waiter_finished
    /\ UNCHANGED <<filterVars, patternVars, max_workers, pc, snapshotVars, nsub, evals, work_queue, num_threads,
                   before_wait, unyielded, batch, pending, results, processed>>

\* line 248: as_completed(future_to_stock) is called once every candidate is
\* submitted; it takes the futures finished by now and installs its waiter
AsCompletedStart ==
    /\ pc = "submit"
    /\ nsub = Len(candidates)
    /\ pc' = "loop"
    /\ before_wait' = {f \in Futures : fstate[f] = "finished"}
    /\ unyielded' = {f \in Futures : fstate[f] = "finished"}
    /\ pending' = Futures
    /\ UNCHANGED <<filterVars, patternVars, max_workers, snapshotVars, poolVars, waiter_finished, batch,
                   results, processed>>

\* lines 249-255 for the future just yielded: future.result() returns the value
\* or raises what the call raised
LoopBody(f) ==
    /\ processed' = processed + 1
    /\ pending' = pending \ {f}
    /\ IF fresult[f].kind = "Exc"
       THEN pc' = "unwinding" /\ results' = results
       ELSE pc' = pc /\ results' = AppendResult(results, fresult[f])

\* as_completed yields one of the futures that were finished when it started
YieldFinished(f) ==
    /\ pc = "loop"
    /\ f \in unyielded
    /\ unyielded' = unyielded \ {f}
    /\ LoopBody(f)
    /\ UNCHANGED <<filterVars, patternVars, max_workers, snapshotVars, poolVars, before_wait, waiter_finished, batch>>

\* as_completed wakes up and takes what its waiter collected, reversed
TakeNotified ==
    /\ pc = "loop"
    /\ unyielded = {}
    /\ batch = <<>>
    /\ pending # {}
    /\ waiter_finished # <<>>
    /\ batch' = Reverse(waiter_finished)
    /\ waiter_finished' = <<>>
    /\ UNCHANGED <<filterVars, patternVars, max_workers, pc, snapshotVars, poolVars, before_wait, unyielded,
                   pending, results, processed>>

\* as_completed yields the last future of the list it took
YieldNotified ==
    /\ pc = "loop"
    /\ unyielded = {}
    /\ batch # <<>>
    /\ batch' = SubSeq(batch, 1, Len(batch) - 1)
    /\ LoopBody(batch[Len(batch)])
    /\ UNCHANGED <<filterVars, patternVars, max_workers, snapshotVars, poolVars, before_wait, unyielded,
                   waiter_finished>>

ReturnResultsOnFirstHit ==
    /\ pc = "loop"
    /\ results # <<>>
    /\ pc' = "returned"
    /\ UNCHANGED <<filterVars, patternVars, max_workers, snapshotVars, poolVars, loopVars>>

\* lines 256-258: the loop is over (or an exception leaves it), the with block
\* calls executor.shutdown(wait=True), which joins the pool's threads after
\* they have run every queued item; then run_screen returns or raises
ReturnResults ==
    /\ pc \in {"loop", "unwinding"}
    /\ pc = "loop" => (unyielded = {} /\ batch = <<>> /\ pending = {})
    /\ AllFinished
    /\ pc' = IF pc = "loop" THEN "returned" ELSE "raised in result"
    /\ UNCHANGED <<filterVars, patternVars, max_workers, snapshotVars, poolVars, loopVars>>

MainThread ==
    \/ \E imp \in BOOLEAN, a \in DOMAIN AkAnswers, e \in DOMAIN EfAnswers :
           BeginRunScreen(imp, AkAnswers[a], EfAnswers[e])
    \/ Submit
    \/ AsCompletedStart
    \/ \E f \in unyielded : YieldFinished(f)
    \/ TakeNotified
    \/ YieldNotified
    \/ ReturnResults

PoolThreads ==
    \/ StartEval
    \/ \E f \in Futures, k \in DOMAIN FetchMenu : FinishEval(f, k)

ScreenNext == MainThread \/ PoolThreads

Spec == ScreenInit /\ [][ScreenNext]_vars

\* the threads are scheduled, and every evaluation that runs finishes
FairSpec == ScreenInit /\ [][ScreenNext]_vars /\ WF_vars(MainThread) /\ WF_vars(PoolThreads)

(***************************************************************************)
(* Properties of filter_basics (under SpecFilter).                         *)
(***************************************************************************)
HasFilterCols(df) == {"price", "pe", "total_mv"} \subseteq df.cols

SatisfiesAll(r) ==
    /\ r["price"] # NaN /\ r["price"][1] <= 20
    /\ r["pe"] # NaN /\ r["pe"][1] > 0
    /\ r["total_mv"] # NaN /\ r["total_mv"][1] <= 200

\* t is s with some elements left out, the rest in their order
IsOrderedSubSeq(t, s) ==
    \E f \in [1..Len(t) -> 1..Len(s)] :
        /\ \A i \in 1..Len(t) : t[i] = s[f[i]]
        /\ \A i, j \in 1..Len(t) : i < j => f[i] < f[j]

\* C7: filter_basics returns exactly the input rows with price <= 20, pe > 0 and
\* total_mv <= 2*10^10 (200 units), in input order; a missing value fails the row;
\* the output is never longer than the input; empty input gives empty output
\* without error.  (Stated for frames that have the three columns, or no rows.)
C7_FilterKeepsExactlyTheSatisfyingRows ==
    fpc = "done" =>
        /\ HasFilterCols(fdf) =>
              /\ fres.ok
              /\ fres.df.rows = SelectSeq(fdf.rows, SatisfiesAll)
              /\ IsOrderedSubSeq(fres.df.rows, fdf.rows)
              /\ Len(fres.df.rows) <= Len(fdf.rows)
              /\ \A i \in 1..Len(fres.df.rows) : SatisfiesAll(fres.df.rows[i])
        /\ fdf.rows = <<>> => fres.ok /\ fres.df.rows = <<>>

C7_Witness ==
    /\ fpc = "done"
    /\ HasFilterCols(fdf)
    /\ Len(fdf.rows) = 3
    /\ fdf.rows[2]["pe"] = NaN
    /\ fres.ok
    /\ Len(fres.df.rows) = 2
    /\ fres.df.rows[1]["code"] = "b"
    /\ fres.df.rows[2]["code"] = "a"

(***************************************************************************)
(* Properties of check_technical_pattern (under SpecPattern), stated on    *)
(* the fetched bars by date, not on the code's sorted copy.                *)
(***************************************************************************)
Bars == Range(hist.bars)

\* the k bars with the latest dates (dates are distinct)
LatestBars(k) == {b \in Bars : Cardinality({c \in Bars : c.date > b.date}) < k}

LatestBar == CHOOSE b \in Bars : \A c \in Bars : c.date <= b.date

EarliestOf(S) == CHOOSE b \in S : \A c \in S : c.date >= b.date

RallyBarsOf(window) == {b \in window : b.pct_chg * 10 > 950}

RECURSIVE CloseSum(_)
CloseSum(S) ==
    IF S = {} THEN 0
    ELSE LET b == CHOOSE x \in S : TRUE IN b.close + CloseSum(S \ {b})

SeriesHigh == CHOOSE h \in {b.high : b \in Bars} : \A b \in Bars : b.high <= h

SeriesLow == CHOOSE l \in {b.low : b \in Bars} : \A b \in Bars : b.low >= l

\* (latest - start) / start <= 1/2, start > 0
GateInterval(latest, start) == 2 * (latest.close - start.close) <= start.close

\* MA5 > MA10 > MA20 at the latest bar: sum5/5 > sum10/10 > sum20/20
GateMa ==
    LET s5 == CloseSum(LatestBars(5))
        s10 == CloseSum(LatestBars(10))
        s20 == CloseSum(LatestBars(20))
    IN  2 * s5 > s10 /\ 2 * s10 > s20

\* (latest - low) / (high - low) <= 1/2, or a range of zero width
GatePosition(latest, high, low) ==
    \/ high = low
    \/ high > low /\ 2 * (latest.close - low) <= high - low
    \/ high < low /\ 2 * (latest.close - low) >= high - low

Evaluated60 ==
    /\ ppc = "done"
    /\ hist.kind = "frame"
    /\ hist.cols = BarCols
    /\ Len(hist.bars) >= 60

WithinZeroToHundred(r) ==
    \/ r.d > 0 /\ 0 <= r.n /\ r.n <= 100 * r.d
    \/ r.d < 0 /\ 0 >= r.n /\ r.n >= 100 * r.d

PositiveBars == \A b \in Bars : b.close > 0 /\ b.high > 0 /\ b.low > 0

\* C8: on every hit over positive-valued bars position_rank is in [0, 100], and
\* it is 0 when the maximum high equals the minimum low.
C8_PositionRankWithinZeroToHundred ==
    (Evaluated60 /\ pres.kind = "hit" /\ PositiveBars) =>
        /\ WithinZeroToHundred(pres.position_rank)
        /\ SeriesHigh = SeriesLow => pres.position_rank.n = 0

(***************************************************************************)
(* Properties of run_screen (under Spec; C2 under FairSpec).               *)
(***************************************************************************)
IsHit(f) == fstate[f] = "finished" /\ fresult[f].kind = "hit"

Hits == {f \in Futures : IsHit(f)}

\* the future whose call produced result r (candidate codes are distinct)
FutureOf(r) == CHOOSE f \in Futures : candidates[f].code = r.code

\* where future f stands in the order of completion
CompletedAt(f) == CHOOSE i \in 1..Len(completed) : completed[i] = f

DistinctCodes ==
    \A i, j \in 1..Len(candidates) : candidates[i].code = candidates[j].code => i = j

\* C1: every candidate is evaluated exactly once, and the returned collection
\* holds each non-absent result exactly once and nothing else, for every pool
\* width and every interleaving of the workers.
C1_EveryCandidateOnceNoResultLostOrDuplicated ==
    /\ \A f \in Futures : evals[f] <= 1
    /\ pc = "returned" =>
          /\ nsub = Len(candidates)
          /\ \A f \in Futures : evals[f] = 1
          /\ Len(results) = Cardinality(Hits)
          /\ \A f \in Hits : Cardinality({i \in 1..Len(results) : results[i] = fresult[f]}) = 1
          /\ \A i \in 1..Len(results) : \E f \in Hits : results[i] = fresult[f]

C1_Witness ==
    /\ pc = "returned"
    /\ DistinctCodes
    /\ Len(candidates) = 3
    /\ max_workers = 2
    /\ Len(results) = 2
    /\ completed = <<2, 3, 1>>
    /\ fresult[2].kind = "None"

\* C2: run_screen has never returned while a submitted evaluation is pending or
\* running, and once the candidates are being submitted it eventually returns.
C2_ReturnsOnlyAfterAllAndEventually ==
    /\ [](pc = "returned" => (AllFinished /\ work_queue = <<>>))
    /\ ((pc = "submit") ~> (pc = "returned"))

C2_Witness ==
    /\ pc = "returned"
    /\ nsub = 3
    /\ \E f \in Futures : failed[f]
    /\ \E f \in Futures : ~failed[f] /\ fresult[f].kind = "None"
    /\ \E f \in Futures : fresult[f].kind = "hit"

\* C3: an error raised by a candidate's fetch or computation is reported as
\* absent: run_screen never raises out of an evaluation, every other candidate
\* is still evaluated and its hit returned, and when every evaluation fails the
\* returned collection is empty.
C3_EvaluationErrorsAreAbsentNotRaised ==
    /\ pc \notin {"unwinding", "raised in result"}
    /\ \A f \in Futures : (fstate[f] = "finished" /\ failed[f]) => fresult[f] = None
    /\ pc = "returned" =>
          /\ \A f \in 1..Len(candidates) : f \in Futures /\ evals[f] = 1
          /\ \A f \in Hits : \E i \in 1..Len(results) : results[i] = fresult[f]
          /\ (\A f \in Futures : failed[f]) => results = <<>>

C3_Witness ==
    /\ pc = "returned"
    /\ Len(candidates) = 3
    /\ failed[1] /\ failed[3]
    /\ results = <<fresult[2]>>
    /\ fresult[2].kind = "hit"
    /\ completed = <<1, 2, 3>>

\* C4: for every non-empty snapshot, also one with missing or malformed fields,
\* run_screen returns a collection and never raises.
C4_NonEmptySnapshotNeverRaises ==
    ~IsEmpty(df_market) =>
        pc \notin {"raised in filter_basics", "raised in to_dict", "raised in result"}

\* C5: the primary provider is called first; when its call fails the secondary
\* is called and its rows are returned; when both fail the snapshot is empty,
\* and on an empty snapshot run_screen returns an empty result and evaluates
\* no candidate.
C5_PrimaryThenSecondaryThenEmpty ==
    pc # "start" =>
        /\ Len(attempts) >= 1 => attempts[1] = "akshare"
        /\ outcome.efinance # "none" => (attempts = <<"akshare", "efinance">> /\ outcome.akshare = "raise")
        /\ outcome.akshare = "raise" => attempts = <<"akshare", "efinance">>
        /\ (outcome.akshare = "raise" /\ outcome.efinance = "frame") =>
              /\ Len(df_market.rows) = Len(fetched_rows)
              /\ \A i \in 1..Len(fetched_rows) :
                    /\ df_market.rows[i]["code"] = fetched_rows[i]["gupiaodaima"]
                    /\ df_market.rows[i]["price"] = <<fetched_rows[i]["zuixinjia"].v>>
        /\ (outcome.akshare = "raise" /\ outcome.efinance = "raise") => df_market = EmptyFrame
        /\ IsEmpty(df_market) =>
              /\ pc = "returned"
              /\ results = <<>>
              /\ nsub = 0
              /\ completed = <<>>

C5_Witness ==
    /\ pc = "returned"
    /\ outcome = [akshare |-> "raise", efinance |-> "frame"]
    /\ Len(df_market.rows) = 3
    /\ Len(candidates) = 2
    /\ Len(results) = 2

\* C9, by completion order: a hit whose evaluation completed before another hit's comes
\* before it in the returned collection.
C9_Original_ResultsInCompletionOrder ==
    \A i, j \in 1..Len(results) :
        CompletedAt(FutureOf(results[i])) < CompletedAt(FutureOf(results[j])) => i < j

\* C9, by the order of as_completed: a hit whose evaluation completed before another hit's comes
\* before it in the returned collection when the later of the two completed
\* after as_completed was called (that is, after every candidate was submitted);
\* hits that both completed before that come in either order.
C9_ResultsInNotificationOrder ==
    \A i, j \in 1..Len(results) :
        ( /\ CompletedAt(FutureOf(results[i])) < CompletedAt(FutureOf(results[j]))
          /\ FutureOf(results[j]) \notin before_wait ) => i < j

C9_Witness ==
    /\ pc = "returned"
    /\ Len(results) = 3
    /\ FutureOf(results[1]) = 3
    /\ FutureOf(results[2]) = 1
    /\ FutureOf(results[3]) = 2
    /\ completed = <<1, 3, 2>>
    /\ before_wait = {1, 3}

\* C10: at every moment at most max_workers evaluations are running.
C10_AtMostMaxWorkersRunning == Busy <= max_workers

C10_Witness ==
    /\ max_workers = 2
    /\ Busy = 2
    /\ work_queue # <<>>
    /\ num_threads = 2

====
